---- MODULE Spec2Model ----
(***************************************************************************)
(* A model of himawari_wallpaper.py: one invocation of main() is a run of  *)
(* the pipeline  prune -> align -> download tiles -> stitch -> resize and  *)
(* center -> save -> set wallpaper.  The state is the output directory,    *)
(* the wall clock, the configuration, the desktop wallpaper and the local  *)
(* variables of the running process.                                       *)
(*                                                                         *)
(* Strings are sequences of one-character strings, so that formatting a    *)
(* file name and splitting it again are computed and not assumed.          *)
(***************************************************************************)
EXTENDS Integers, Sequences, FiniteSets, TLC

VARIABLES
  cfg,          \* the loaded config.json (lines 19-34)
  srv,          \* what each mirror serves: base url -> tile size <<w, h>>
  now,          \* the wall clock, datetime.utcnow()
  ticks,        \* how often the clock has advanced
  runs,         \* how many invocations of main() have started
  pc,           \* position of the running process in main()
  dir,          \* SAVE_DIR: file name -> file content
  pruned,       \* the files clean_old_images unlinked in this run
  aligned_time, \* main(): aligned_time
  time_str,     \* main(): time_str
  row,          \* download_tiles: row
  col,          \* download_tiles: col
  mi,           \* download_tiles: index of base_url in BASE_URL
  row_tiles,    \* download_tiles: row_tiles
  tiles,        \* download_tiles: tiles
  http,         \* the GET requests issued in this run, with their outcome
  big_img,      \* main(): big_img
  final_img,    \* main(): final_img
  out_path,     \* main(): out_path
  sink,         \* the paths handed to set_wallpaper, over all runs
  steps         \* the steps of main() that completed in this run

vars == <<cfg, srv, now, ticks, runs, pc, dir, pruned, aligned_time, time_str,
          row, col, mi, row_tiles, tiles, http, big_img, final_img, out_path,
          sink, steps>>

procvars == <<pruned, aligned_time, time_str, row, col, mi, row_tiles, tiles,
              http, big_img, final_img, out_path, steps>>

(***************************************************************************)
(* Bounds of the model.                                                    *)
(***************************************************************************)
MaxND == 2        \* grid densities 1..MaxND
MaxRuns == 2      \* invocations of main() in one behaviour
MaxTicks == 2     \* clock advances in one behaviour
MaxFiles == 3     \* files in the output directory when the first run starts
MaxLag == 3       \* delay_minutes 0..MaxLag in SpecAlign
MaxGran == 7      \* update_interval_minutes 1..MaxGran in SpecAlign
MaxEdge == 6      \* canvas edges 1..MaxEdge in SpecCompose

(***************************************************************************)
(* Strings.                                                                *)
(***************************************************************************)
DigitChars == <<"0", "1", "2", "3", "4", "5", "6", "7", "8", "9">>

\* The characters that occur, in code point order.
CharOrder == <<".", "/", "0", "1", "2", "3", "4", "5", "6", "7", "8", "9",
               "A", "B", "_", "d", "e", "g", "i", "l", "n", "p", "t", "x">>

Ord(c) == CHOOSE i \in 1..Len(CharOrder) : CharOrder[i] = c

\* Python's str < str: lexicographic by code point, a proper prefix first.
RECURSIVE StrLess(_, _)
StrLess(a, b) ==
  IF b = <<>> THEN FALSE
  ELSE IF a = <<>> THEN TRUE
  ELSE IF Head(a) = Head(b) THEN StrLess(Tail(a), Tail(b))
  ELSE Ord(Head(a)) < Ord(Head(b))

\* str(n) for n >= 0.
RECURSIVE Str(_)
Str(n) == IF n < 10 THEN <<DigitChars[n + 1]>>
          ELSE Str(n \div 10) \o <<DigitChars[(n % 10) + 1]>>

\* n zero-padded to at least w digits (%m, %d, %H, %M, %S, %Y).
RECURSIVE Pad(_, _)
Pad(n, w) == IF Len(Str(n)) >= w THEN Str(n)
             ELSE <<"0">> \o Pad(n, w - 1)

\* s.replace(old, new) for a one-character old.
RECURSIVE Replace(_, _, _)
Replace(s, old, new) ==
  IF s = <<>> THEN <<>>
  ELSE (IF Head(s) = old THEN new ELSE <<Head(s)>>) \o Replace(Tail(s), old, new)

\* s.split(sep) for a one-character sep: the fields between separators,
\* empty fields included.
RECURSIVE SplitFrom(_, _, _)
SplitFrom(s, sep, cur) ==
  IF s = <<>> THEN <<cur>>
  ELSE IF Head(s) = sep THEN <<cur>> \o SplitFrom(Tail(s), sep, <<>>)
  ELSE SplitFrom(Tail(s), sep, Append(cur, Head(s)))

Split(s, sep) == SplitFrom(s, sep, <<>>)

EndsWith(s, suf) ==
  /\ Len(s) >= Len(suf)
  /\ SubSeq(s, Len(s) - Len(suf) + 1, Len(s)) = suf

\* The position of the last "." of a name, 0 when there is none.
RECURSIVE LastDot(_, _)
LastDot(s, i) == IF i = 0 THEN 0
                 ELSE IF s[i] = "." THEN i ELSE LastDot(s, i - 1)

\* pathlib's Path.stem: the name without its last suffix; a leading dot is
\* no suffix.
Stem(name) ==
  LET i == LastDot(name, Len(name))
  IN  IF i > 1 /\ i < Len(name) THEN SubSeq(name, 1, i - 1) ELSE name

Png == <<".", "p", "n", "g">>

(***************************************************************************)
(* Date and time: a datetime is a record of its fields.                    *)
(***************************************************************************)
IsLeap(y) == (y % 4 = 0) /\ ((y % 100 # 0) \/ (y % 400 = 0))

DaysInMonth(y, m) ==
  IF m = 2 THEN (IF IsLeap(y) THEN 29 ELSE 28)
  ELSE IF m \in {4, 6, 9, 11} THEN 30 ELSE 31

DaysBeforeYear(y) ==
  365 * (y - 1) + ((y - 1) \div 4) - ((y - 1) \div 100) + ((y - 1) \div 400)

RECURSIVE DaysBeforeMonth(_, _)
DaysBeforeMonth(y, m) ==
  IF m = 1 THEN 0 ELSE DaysBeforeMonth(y, m - 1) + DaysInMonth(y, m - 1)

\* date.toordinal(): 1 for 0001-01-01.
ToOrdinal(y, m, d) == DaysBeforeYear(y) + DaysBeforeMonth(y, m) + d

\* The year of an ordinal day.
RECURSIVE YearOf(_, _)
YearOf(n, y) ==
  IF n <= DaysBeforeYear(y) THEN YearOf(n, y - 1)
  ELSE IF n > DaysBeforeYear(y + 1) THEN YearOf(n, y + 1)
  ELSE y

RECURSIVE MonthOf(_, _, _)
MonthOf(n, y, m) ==
  IF n > DaysBeforeMonth(y, m) + DaysInMonth(y, m) THEN MonthOf(n, y, m + 1)
  ELSE m

\* The minutes of a datetime since 0001-01-01 00:00, less one day.
ToMinutes(t) ==
  (ToOrdinal(t.year, t.month, t.day) * 24 + t.hour) * 60 + t.minute

\* The datetime of a minute count, with the given second and microsecond.
FromMinutes(n, s, us) ==
  LET days == n \div 1440
      rest == n % 1440
      y == YearOf(days, 1 + (days \div 366))
      m == MonthOf(days - DaysBeforeYear(y), y, 1)
  IN  [year |-> y, month |-> m,
       day |-> days - DaysBeforeYear(y) - DaysBeforeMonth(y, m),
       hour |-> rest \div 60, minute |-> rest % 60,
       second |-> s, microsecond |-> us]

\* t - timedelta(minutes = d)
MinusMinutes(t, d) == FromMinutes(ToMinutes(t) - d, t.second, t.microsecond)

\* t + timedelta(seconds = s), for 0 <= s
PlusSeconds(t, s) ==
  LET total == t.second + s
  IN  FromMinutes(ToMinutes(t) + (total \div 60), total % 60, t.microsecond)

DateTime(y, mo, d, h, mi_, s, us) ==
  [year |-> y, month |-> mo, day |-> d, hour |-> h, minute |-> mi_,
   second |-> s, microsecond |-> us]

NoTime == DateTime(0, 0, 0, 0, 0, 0, 0)

\* strftime("%Y/%m/%d/%H%M%S")
Strftime(t) ==
  Pad(t.year, 4) \o <<"/">> \o Pad(t.month, 2) \o <<"/">> \o Pad(t.day, 2)
    \o <<"/">> \o Pad(t.hour, 2) \o Pad(t.minute, 2) \o Pad(t.second, 2)

(***************************************************************************)
(* The functions of himawari_wallpaper.py.                                 *)
(***************************************************************************)
\* The minute truncated, the second and the microsecond left as they are.
get_aligned_time_KeepsSeconds(t, delay, interval) ==
  LET target == MinusMinutes(t, delay)
      minute == (target.minute \div interval) * interval
  IN  [target EXCEPT !.minute = minute]

\* get_aligned_time(), lines 39-44, as a function of the clock it reads.
get_aligned_time(t, delay, interval) ==
  LET target == MinusMinutes(t, delay)
      minute == (target.minute \div interval) * interval
  IN  [target EXCEPT !.minute = minute, !.second = 0, !.microsecond = 0]

\* convert_time, lines 47-49.
convert_time(s) == Replace(s, "/", <<"_", "_">>)

\* list_png, lines 52-55: the names glob("*.png") matches, as a set; the
\* order in which glob yields them is the file system's.
list_png(d) == {n \in DOMAIN d : EndsWith(n, Png)}

\* The orders in which a set can be listed.
RECURSIVE Orders(_)
Orders(S) ==
  IF S = {} THEN {<<>>}
  ELSE UNION {{<<x>> \o p : p \in Orders(S \ {x})} : x \in S}

\* get_timestamp, lines 58-62.
get_timestamp(name) ==
  LET parts == Split(Stem(name), "_")
  IN  IF Len(parts) >= 3 THEN parts[3] ELSE <<"0">>

\* list.sort(key = get_timestamp): a stable sort, ascending by key.
RECURSIVE InsertByKey(_, _)
InsertByKey(x, sorted) ==
  IF sorted = <<>> THEN <<x>>
  ELSE IF StrLess(get_timestamp(x), get_timestamp(Head(sorted)))
       THEN <<x>> \o sorted
       ELSE <<Head(sorted)>> \o InsertByKey(x, Tail(sorted))

RECURSIVE SortByKey(_, _)
SortByKey(images, sorted) ==
  IF images = <<>> THEN sorted
  ELSE SortByKey(Tail(images), InsertByKey(Head(images), sorted))

\* One file too few unlinked.
clean_old_images_OneLess(images, max_images) ==
  IF Len(images) <= max_images + 1 THEN <<>>
  ELSE SubSeq(SortByKey(images, <<>>), 1, Len(images) - max_images - 1)

\* clean_old_images, lines 65-73: the files it unlinks, in order, given the
\* order in which list_png returned them.
clean_old_images(images, max_images) ==
  IF Len(images) <= max_images THEN <<>>
  ELSE LET sorted == SortByKey(images, <<>>)
           n == Len(images) - max_images
       IN  SubSeq(sorted, 1, IF n > Len(images) THEN Len(images) ELSE n)

\* The url of a tile, line 98.
TileUrl(base_url, c, ts, cc, r) ==
  base_url \o <<"/">> \o Str(c.nd) \o <<"d", "/">> \o Str(c.tile_size)
    \o <<"/">> \o ts \o <<"_">> \o Str(cc) \o <<"_">> \o Str(r) \o Png

\* The per-tile path, line 103 (relative to SAVE_DIR).
TilePath(r, cc) ==
  <<"t", "i", "l", "e", "_">> \o Str(r) \o <<"_">> \o Str(cc) \o Png

\* Pixels.  A pixel of a decoded tile is named by the url its bytes came
\* from and its position in the tile; a pixel nothing was pasted on is black.
Black == <<<<>>, 0, 0>>

\* The pixel (x, y) of the image an Image object reads from its file.  PIL
\* opens lazily: the pixel data is read from the path when first needed.
TilePixel(d, tile, x, y) ==
  IF tile.path \in DOMAIN d /\ d[tile.path].kind = "png"
  THEN <<d[tile.path].url, x, y>>
  ELSE Black

\* Image.new("RGB", (w, h))
NewImage(w, h) ==
  [size |-> <<w, h>>, px |-> [p \in (0..(w - 1)) \X (0..(h - 1)) |-> Black]]

NoImage == NewImage(0, 0)

\* Image.paste(tile, (ox, oy)): the tile's box, clipped to the image.
Paste(img, d, tile, ox, oy) ==
  [img EXCEPT !.px =
     [p \in DOMAIN img.px |->
        IF /\ p[1] >= ox /\ p[1] < ox + tile.size[1]
           /\ p[2] >= oy /\ p[2] < oy + tile.size[2]
        THEN TilePixel(d, tile, p[1] - ox, p[2] - oy)
        ELSE img.px[p]]]

\* Row and column exchanged.
PasteOffsetTransposed(r, cc, tile_w, tile_h) == <<r * tile_w, cc * tile_h>>

\* The offset at which stitch_tiles pastes tiles[row][col], line 126.
PasteOffset(r, cc, tile_w, tile_h) == <<cc * tile_w, r * tile_h>>

\* The loops of lines 124-126 from cell k (row-major) on.
RECURSIVE PasteFrom(_, _, _, _, _)
PasteFrom(img, d, ts, nd, k) ==
  IF k >= nd * nd THEN img
  ELSE LET r == k \div nd
           cc == k % nd
           tile_w == ts[1][1].size[1]
           tile_h == ts[1][1].size[2]
           off == PasteOffset(r, cc, tile_w, tile_h)
       IN  PasteFrom(Paste(img, d, ts[r + 1][cc + 1], off[1], off[2]),
                     d, ts, nd, k + 1)

\* stitch_tiles, lines 119-127.
stitch_tiles(ts, d, nd) ==
  LET tile_w == ts[1][1].size[1]
      tile_h == ts[1][1].size[2]
  IN  PasteFrom(NewImage(tile_w * nd, tile_h * nd), d, ts, nd, 0)

\* int(x) of the quotient n / q: truncation toward zero.
IntTrunc(n, q) == IF n >= 0 THEN n \div q ELSE -((-n) \div q)

Min(a, b) == IF a <= b THEN a ELSE b

Max(a, b) == IF a >= b THEN a ELSE b

\* The long edge taken for the short one.
target_size_LongEdge(screen_size, cover_ratio) ==
  IntTrunc(Max(screen_size[1], screen_size[2]) * cover_ratio[1], cover_ratio[2])

\* target_size, lines 133-134; a cover ratio is a pair <<num, den>>.
target_size(screen_size, cover_ratio) ==
  IntTrunc(Min(screen_size[1], screen_size[2]) * cover_ratio[1], cover_ratio[2])

\* The composite pasted in the top left corner.
center_offset_TopLeft(screen_size, target) == <<0, 0>>

\* The paste offset, lines 138-139.
center_offset(screen_size, target) ==
  <<(screen_size[1] - target) \div 2, (screen_size[2] - target) \div 2>>

\* resize_and_center, lines 130-141: a canvas of the screen size with the
\* composite, resized to a square of target_size, pasted at the offset.
resize_and_center(img, screen_size, cover_ratio) ==
  LET target == target_size(screen_size, cover_ratio)
  IN  [size |-> screen_size,
       resized |-> <<target, target>>,
       offset |-> center_offset(screen_size, target),
       of |-> img]

NoCanvas == [size |-> <<0, 0>>, resized |-> <<0, 0>>, offset |-> <<0, 0>>,
             of |-> NoImage]

\* The file name of an artifact with a given snapshot time, line 148.
ArtifactName(c, t) ==
  Str(c.nd) \o <<"d", "_">> \o Str(c.tile_size) \o <<"_">>
    \o convert_time(Strftime(t)) \o Png

\* save_wallpaper(img), lines 144-151: the name of the file written.  main()
\* passes no filename, so the name is built from get_aligned_time() at the
\* moment of the save.  The time is read once (line 147) and the name is
\* formatted from that value (line 148).
save_wallpaper(c, t_now) ==
  CHOOSE filename \in
    {ArtifactName(c, t) :
       t \in {get_aligned_time(t_now, c.delay_minutes,
                               c.update_interval_minutes)}} : TRUE

(***************************************************************************)
(* The process: main(), lines 167-179, one action per step.                *)
(***************************************************************************)
Range(f) == {f[i] : i \in DOMAIN f}

\* The wallpaper set before the canvas is saved.
MainNextApplyFirst(step) ==
  CASE step = "prune" -> "align"
    [] step = "align" -> "fetch"
    [] step = "fetch" -> "stitch"
    [] step = "stitch" -> "compose"
    [] step = "compose" -> "apply"
    [] step = "apply" -> "save"
    [] step = "save" -> "done"

\* The order of the steps of main(), lines 169-179.
MainNext(step) ==
  CASE step = "prune" -> "align"
    [] step = "align" -> "fetch"
    [] step = "fetch" -> "stitch"
    [] step = "stitch" -> "compose"
    [] step = "compose" -> "save"
    [] step = "save" -> "apply"
    [] step = "apply" -> "done"

\* A loop over the mirrors from the last to the first.
MirrorAtReversed(c, i) == c.base_url[Len(c.base_url) + 1 - i]

\* The mirror the loop of line 97 tries in its i-th iteration.
MirrorAt(c, i) == c.base_url[i]

\* The files left when the first n of the victims are unlinked, line 73.
Unlink(d, victims, n) ==
  [f \in DOMAIN d \ {victims[i] : i \in 1..n} |-> d[f]]

\* clean_old_images(SAVE_DIR, MAX_PIC), line 169, every unlink succeeding.
Prune ==
  /\ pc = "prune"
  /\ \E images \in Orders(list_png(dir)) :
       LET victims == clean_old_images(images, cfg.max_pic_count)
       IN  /\ dir' = Unlink(dir, victims, Len(victims))
           /\ pruned' = {<<victims[i], dir[victims[i]].gen>> :
                           i \in 1..Len(victims)}
  /\ pc' = MainNext("prune")
  /\ steps' = Append(steps, "prune")
  /\ UNCHANGED <<cfg, srv, now, ticks, runs, aligned_time, time_str, row, col,
                 mi, row_tiles, tiles, http, big_img, final_img, out_path, sink>>

\* clean_old_images when the j-th unlink raises (line 73): nothing catches
\* the exception, so main() ends with it.
PruneUnlinkFails ==
  /\ pc = "prune"
  /\ \E images \in Orders(list_png(dir)) :
       LET victims == clean_old_images(images, cfg.max_pic_count)
       IN  \E j \in 1..Len(victims) :
             /\ dir' = Unlink(dir, victims, j - 1)
             /\ pruned' = {<<victims[i], dir[victims[i]].gen>> :
                             i \in 1..(j - 1)}
  /\ pc' = "failed"
  /\ UNCHANGED <<cfg, srv, now, ticks, runs, aligned_time, time_str, row, col,
                 mi, row_tiles, tiles, http, big_img, final_img, out_path, sink,
                 steps>>

\* Lines 171-172.
Align ==
  /\ pc = "align"
  /\ aligned_time' = get_aligned_time(now, cfg.delay_minutes,
                                      cfg.update_interval_minutes)
  /\ time_str' = Strftime(aligned_time')
  /\ pc' = MainNext("align")
  /\ steps' = Append(steps, "align")
  /\ UNCHANGED <<cfg, srv, now, ticks, runs, dir, pruned, row, col, mi,
                 row_tiles, tiles, http, big_img, final_img, out_path, sink>>

\* The request of lines 98-101 in the loop position (row, col, mi): whether
\* it gave an image (ok) and whether its body was written to the tile path.
Request(ok, written) ==
  [url |-> TileUrl(MirrorAt(cfg, mi), cfg, time_str, col, row),
   mirror |-> MirrorAt(cfg, mi), row |-> row, col |-> col, ok |-> ok,
   written |-> written]

\* A tile path that exists is taken for a cached tile and left as it is.
WrittenUnlessCached(kind) ==
  IF TilePath(row, col) \in DOMAIN dir THEN dir
  ELSE [f \in DOMAIN dir \cup {TilePath(row, col)} |->
          IF f = TilePath(row, col)
          THEN [kind |-> kind, gen |-> runs,
                url |-> TileUrl(MirrorAt(cfg, mi), cfg, time_str, col, row),
                size |-> IF kind = "png" THEN srv[MirrorAt(cfg, mi)] ELSE <<0, 0>>]
          ELSE dir[f]]

\* The file written by lines 103-105.
Written(kind) ==
  [f \in DOMAIN dir \cup {TilePath(row, col)} |->
     IF f = TilePath(row, col)
     THEN [kind |-> kind, gen |-> runs,
           url |-> TileUrl(MirrorAt(cfg, mi), cfg, time_str, col, row),
           size |-> IF kind = "png" THEN srv[MirrorAt(cfg, mi)] ELSE <<0, 0>>]
     ELSE dir[f]]

\* One iteration of the loop of line 97 that succeeds (lines 98-108): the
\* body is written, opened and appended, the cell is done; after the last
\* cell download_tiles returns.
FetchOk ==
  /\ pc = "fetch"
  /\ http' = Append(http, Request(TRUE, TRUE))
  /\ dir' = Written("png")
  /\ LET tile == [path |-> TilePath(row, col), size |-> srv[MirrorAt(cfg, mi)]]
         done == Append(row_tiles, tile)
     IN  IF col + 1 < cfg.nd
         THEN /\ row_tiles' = done
              /\ col' = col + 1
              /\ UNCHANGED <<row, tiles, pc, steps>>
         ELSE /\ row_tiles' = <<>>
              /\ tiles' = Append(tiles, done)
              /\ col' = 0
              /\ row' = row + 1
              /\ IF row + 1 < cfg.nd
                 THEN UNCHANGED <<pc, steps>>
                 ELSE /\ pc' = MainNext("fetch")
                      /\ steps' = Append(steps, "fetch")
  /\ mi' = 1
  /\ UNCHANGED <<cfg, srv, now, ticks, runs, pruned, aligned_time, time_str,
                 big_img, final_img, out_path, sink>>

\* A loop that starts over with the first mirror instead of raising.
AfterFailureRetry ==
  /\ IF mi < Len(cfg.base_url)
     THEN mi' = mi + 1 /\ pc' = pc
     ELSE mi' = 1 /\ pc' = pc
  /\ UNCHANGED <<cfg, srv, now, ticks, runs, pruned, aligned_time, time_str,
                 row, col, row_tiles, tiles, big_img, final_img, out_path,
                 sink, steps>>

\* A failed request tried again on the same mirror.
AfterFailureSameMirror ==
  /\ mi' = mi /\ pc' = pc
  /\ UNCHANGED <<cfg, srv, now, ticks, runs, pruned, aligned_time, time_str,
                 row, col, row_tiles, tiles, big_img, final_img, out_path,
                 sink, steps>>

\* What follows a failed iteration (lines 109-113): the next mirror, or the
\* RuntimeError of line 113 after the last one.
AfterFailure ==
  /\ IF mi < Len(cfg.base_url)
     THEN mi' = mi + 1 /\ pc' = pc
     ELSE mi' = mi /\ pc' = "failed"
  /\ UNCHANGED <<cfg, srv, now, ticks, runs, pruned, aligned_time, time_str,
                 row, col, row_tiles, tiles, big_img, final_img, out_path,
                 sink, steps>>

\* requests.get or raise_for_status raises (lines 101-102): nothing is
\* written.
FetchHttpFails ==
  /\ pc = "fetch"
  /\ http' = Append(http, Request(FALSE, FALSE))
  /\ dir' = dir
  /\ AfterFailure

\* The response is 2xx, its body is written (lines 103-105), and Image.open
\* raises (line 106).
FetchDecodeFails ==
  /\ pc = "fetch"
  /\ http' = Append(http, Request(FALSE, TRUE))
  /\ dir' = Written("garbage")
  /\ AfterFailure

\* Line 175.
Stitch ==
  /\ pc = "stitch"
  /\ big_img' = stitch_tiles(tiles, dir, cfg.nd)
  /\ pc' = MainNext("stitch")
  /\ steps' = Append(steps, "stitch")
  /\ UNCHANGED <<cfg, srv, now, ticks, runs, dir, pruned, aligned_time,
                 time_str, row, col, mi, row_tiles, tiles, http, final_img,
                 out_path, sink>>

\* Line 177.  Image.resize rejects a size below 1 with a ValueError.
Compose ==
  /\ pc = "compose"
  /\ target_size(cfg.pic_size, cfg.cover_ratio) >= 1
  /\ final_img' = resize_and_center(big_img, cfg.pic_size, cfg.cover_ratio)
  /\ pc' = MainNext("compose")
  /\ steps' = Append(steps, "compose")
  /\ UNCHANGED <<cfg, srv, now, ticks, runs, dir, pruned, aligned_time,
                 time_str, row, col, mi, row_tiles, tiles, http, big_img,
                 out_path, sink>>

ComposeFails ==
  /\ pc = "compose"
  /\ target_size(cfg.pic_size, cfg.cover_ratio) < 1
  /\ pc' = "failed"
  /\ UNCHANGED <<cfg, srv, now, ticks, runs, dir, pruned, aligned_time,
                 time_str, row, col, mi, row_tiles, tiles, http, big_img,
                 final_img, out_path, sink, steps>>

\* The directory with the canvas file of a given kind under a name.
WithFile(d, name, kind, img) ==
  [f \in DOMAIN d \cup {name} |->
     IF f = name THEN [kind |-> kind, gen |-> runs, img |-> img] ELSE d[f]]

\* Line 178.
Save ==
  /\ pc = "save"
  /\ out_path' = save_wallpaper(cfg, now)
  /\ dir' = WithFile(dir, out_path', "canvas", final_img)
  /\ pc' = MainNext("save")
  /\ steps' = Append(steps, "save")
  /\ UNCHANGED <<cfg, srv, now, ticks, runs, pruned, aligned_time, time_str,
                 row, col, mi, row_tiles, tiles, http, big_img, final_img, sink>>

\* img.save raises (line 150): before the file is opened, or while writing
\* it, which leaves a partial file.
SaveFails ==
  /\ pc = "save"
  /\ \E partial \in BOOLEAN :
       dir' = IF partial
              THEN WithFile(dir, save_wallpaper(cfg, now), "partial", NoCanvas)
              ELSE dir
  /\ pc' = "failed"
  /\ UNCHANGED <<cfg, srv, now, ticks, runs, pruned, aligned_time, time_str,
                 row, col, mi, row_tiles, tiles, http, big_img, final_img,
                 out_path, sink, steps>>

\* Line 179: set_wallpaper(out_path).
Apply ==
  /\ pc = "apply"
  /\ sink' = Append(sink, [run |-> runs, path |-> out_path])
  /\ pc' = MainNext("apply")
  /\ steps' = Append(steps, "apply")
  /\ UNCHANGED <<cfg, srv, now, ticks, runs, dir, pruned, aligned_time,
                 time_str, row, col, mi, row_tiles, tiles, http, big_img,
                 final_img, out_path>>

(***************************************************************************)
(* The environment: the clock, and the scheduler that starts main() again. *)
(***************************************************************************)
TickSeconds == 20

\* The clock is read by lines 41 and 147 only, so it is moved just before
\* one of these reads: an advance at any other moment is the same as one
\* before the next read.
Tick ==
  /\ pc \in {"align", "save"}
  /\ ticks < MaxTicks
  /\ ticks' = ticks + 1
  /\ now' = PlusSeconds(now, TickSeconds)
  /\ UNCHANGED <<cfg, srv, runs, pc, dir, sink>>
  /\ UNCHANGED procvars

\* The state of a process that enters main().
ProcInit ==
  /\ pruned = {}
  /\ aligned_time = NoTime
  /\ time_str = <<>>
  /\ row = 0
  /\ col = 0
  /\ mi = 1
  /\ row_tiles = <<>>
  /\ tiles = <<>>
  /\ http = <<>>
  /\ big_img = NoImage
  /\ final_img = NoCanvas
  /\ out_path = <<>>
  /\ steps = <<>>

\* The scheduler (cli.py, lines 51-54 and 75-77) starts the script again
\* once the previous process has ended.
StartRun ==
  /\ pc \in {"done", "failed"}
  /\ runs < MaxRuns
  /\ runs' = runs + 1
  /\ pc' = "prune"
  /\ pruned' = {}
  /\ aligned_time' = NoTime
  /\ time_str' = <<>>
  /\ row' = 0
  /\ col' = 0
  /\ mi' = 1
  /\ row_tiles' = <<>>
  /\ tiles' = <<>>
  /\ http' = <<>>
  /\ big_img' = NoImage
  /\ final_img' = NoCanvas
  /\ out_path' = <<>>
  /\ steps' = <<>>
  /\ UNCHANGED <<cfg, srv, now, ticks, dir, sink>>

(***************************************************************************)
(* Configurations and initial states.                                      *)
(***************************************************************************)
MirrorA == <<"A">>
MirrorB == <<"B">>

\* config.json as the repository ships it, but for the grid density, the
\* canvas and the retention cap, which the specifications choose.
Config(nd, pic_size, cover_ratio, max_pic) ==
  [base_url |-> <<MirrorA, MirrorB>>,
   delay_minutes |-> 30,
   update_interval_minutes |-> 10,
   nd |-> nd,
   tile_size |-> 550,
   cover_ratio |-> cover_ratio,
   pic_size |-> pic_size,
   max_pic_count |-> max_pic]

\* The tile sizes the mirrors serve.
TileSizes == {<<2, 1>>, <<1, 2>>}

\* What the mirrors serve: the first tiles of one size, the second of the
\* other, so that a grid is uniform when one mirror gave all of it.
Servers == {[m \in {MirrorA, MirrorB} |-> IF m = MirrorA THEN <<2, 1>> ELSE <<1, 2>>]}

\* Snapshot times of artifacts of earlier runs.
OldTimes ==
  {DateTime(2023, 11, 30, 10, 0, 0, 0), DateTime(2023, 12, 30, 23, 50, 0, 0),
   DateTime(2023, 12, 31, 10, 0, 0, 0), DateTime(2023, 12, 31, 23, 50, 0, 0)}

OldFile == [kind |-> "old", gen |-> 0]

\* A file of another program in the directory.
OtherName == <<"x">> \o Png

\* The directories of at most n files left by earlier runs.
Directories(names, n) ==
  {[f \in S |-> OldFile] : S \in {T \in SUBSET names : Cardinality(T) <= n}}

ArtifactNames(c) == {ArtifactName(c, t) : t \in OldTimes}

InitWith(cfgs, servers, clocks, dirs, at) ==
  /\ cfg \in cfgs
  /\ srv \in servers
  /\ now \in clocks
  /\ dir \in dirs
  /\ ticks = 0
  /\ runs = 1
  /\ pc = at
  /\ sink = <<>>
  /\ ProcInit

(***************************************************************************)
(* Spec: runs of main() one after the other, on a grid of one tile, with   *)
(* the clock advancing.                                                    *)
(***************************************************************************)
RunCfg == Config(1, <<1920, 1080>>, <<9, 10>>, 1)

\* A canvas and a cover ratio that give a target size of 0.
TinyCfg == Config(1, <<1, 1>>, <<1, 2>>, 1)

Init ==
  /\ InitWith({RunCfg, TinyCfg}, Servers,
              {DateTime(2024, 1, 1, 0, 29, 50, 0)},
              Directories(ArtifactNames(RunCfg) \cup {TilePath(0, 0), OtherName},
                          MaxFiles),
              "prune")

Next ==
  \/ Prune
  \/ PruneUnlinkFails
  \/ Align
  \/ FetchOk
  \/ FetchHttpFails
  \/ FetchDecodeFails
  \/ Stitch
  \/ Compose
  \/ ComposeFails
  \/ Save
  \/ SaveFails
  \/ Apply
  \/ Tick
  \/ StartRun

Spec == Init /\ [][Next]_vars

(***************************************************************************)
(* SpecGrid: one run on an empty directory, for the grid densities         *)
(* 1..MaxND and mirrors that serve equal or different tile sizes.          *)
(***************************************************************************)
GridCfg(n) == Config(n, <<1920, 1080>>, <<9, 10>>, 1)

InitGrid ==
  InitWith({GridCfg(n) : n \in 1..MaxND}, Servers,
           {DateTime(2024, 3, 5, 12, 39, 50, 0)}, {<<>>}, "prune")

NextGrid ==
  \/ Prune
  \/ Align
  \/ FetchOk
  \/ FetchHttpFails
  \/ FetchDecodeFails
  \/ Stitch
  \/ Compose
  \/ Save
  \/ Apply

SpecGrid == InitGrid /\ [][NextGrid]_vars

(***************************************************************************)
(* Properties of the tile download and the stitching.                      *)
(***************************************************************************)
Cells == (0..(cfg.nd - 1)) \X (0..(cfg.nd - 1))

\* The positions of the requests of this run for the cell (r, c).
RequestsFor(r, c) == {k \in 1..Len(http) : http[k].row = r /\ http[k].col = c}

\* Every configured mirror has failed for the cell (r, c).
Exhausted(r, c) ==
  \A i \in 1..Len(cfg.base_url) :
    \E k \in RequestsFor(r, c) :
      http[k].mirror = cfg.base_url[i] /\ ~http[k].ok

\* The files of this run that are canvases, whole or partial.
ArtifactsOfRun ==
  {f \in DOMAIN dir : dir[f].kind \in {"canvas", "partial"} /\ dir[f].gen = runs}

\* C1: when every mirror has failed for a cell, the run has aborted at that
\* cell: no request follows the cell's last one, nothing is stitched or
\* composed, no artifact is written and the sink is not invoked.
C1_AbortOnExhaustedCell ==
  \A rc \in Cells :
    Exhausted(rc[1], rc[2]) =>
      /\ pc = "failed"
      /\ http[Len(http)].row = rc[1] /\ http[Len(http)].col = rc[2]
      /\ big_img = NoImage
      /\ final_img = NoCanvas
      /\ ArtifactsOfRun = {}
      /\ out_path = <<>>
      /\ \A i \in 1..Len(sink) : sink[i].run # runs

\* A run that aborted at a cell after another cell succeeded and before the
\* last cell.
C1_Witness ==
  /\ pc = "failed"
  /\ \E rc \in Cells :
       /\ Exhausted(rc[1], rc[2])
       /\ rc # <<0, 0>>
       /\ rc # <<cfg.nd - 1, cfg.nd - 1>>
  /\ \E k \in 1..Len(http) : http[k].ok

\* C2: the j-th request for a cell goes to the j-th configured mirror, and
\* every earlier request for that cell has failed.
C2_MirrorsInOrder ==
  \A k \in 1..Len(http) :
    LET earlier == {j \in RequestsFor(http[k].row, http[k].col) : j < k}
    IN  /\ Cardinality(earlier) < Len(cfg.base_url)
        /\ http[k].mirror = cfg.base_url[Cardinality(earlier) + 1]
        /\ \A j \in earlier : ~http[j].ok
        /\ \A j \in earlier : \A i \in j..k : i \in earlier \cup {k}

\* A grid in which one cell took the first mirror and another the second.
C2_Witness ==
  /\ pc = "stitch"
  /\ \E k \in 1..Len(http) : http[k].ok /\ http[k].mirror = cfg.base_url[1]
  /\ \E k \in 2..Len(http) :
       /\ http[k].ok /\ http[k].mirror = cfg.base_url[2]
       /\ ~http[k - 1].ok /\ http[k - 1].mirror = cfg.base_url[1]

\* The url of the request that gave the tile of cell (r, c).
OkUrl(r, c) ==
  LET k == CHOOSE j \in RequestsFor(r, c) : http[j].ok IN http[k].url

Stitched == \E i \in 1..Len(steps) : steps[i] = "stitch"

\* Every tile of the grid has the size (w, h).
Uniform(w, h) ==
  \A rc \in Cells : tiles[rc[1] + 1][rc[2] + 1].size = <<w, h>>

\* C5: a grid of N x N tiles of one size (w, h) gives a composite of size
\* (N*w, N*h) whose block at (col*w, row*h) is, pixel for pixel, the tile
\* requested for (row, col) with the url suffix _{col}_{row}.png.
C5_BlocksAreTiles ==
  Stitched =>
    \A sz \in TileSizes :
      LET w == sz[1]
          h == sz[2]
      IN
      Uniform(w, h) =>
        /\ big_img.size = <<cfg.nd * w, cfg.nd * h>>
        /\ \A rc \in Cells :
             /\ EndsWith(OkUrl(rc[1], rc[2]),
                         <<"_">> \o Str(rc[2]) \o <<"_">> \o Str(rc[1]) \o Png)
             /\ \A x \in 0..(w - 1), y \in 0..(h - 1) :
                  big_img.px[<<rc[2] * w + x, rc[1] * h + y>>]
                    = <<OkUrl(rc[1], rc[2]), x, y>>

\* A stitched grid of more than one tile, of tiles that are not square, got
\* from the second mirror after the first failed.
C5_Witness ==
  /\ Stitched
  /\ cfg.nd >= 2
  /\ Uniform(1, 2)
  /\ \E k \in 1..Len(http) : http[k].ok /\ http[k].mirror = cfg.base_url[2]

\* C8: once a cell has succeeded, its tile file holds the body of the
\* request that succeeded, which is the first request for that cell that did
\* not fail; and every pixel of the composite is black or comes from the
\* body of a request that succeeded, never from one that failed.
C8_OnlyTheSuccessfulBody ==
  /\ \A k \in 1..Len(http) :
       http[k].ok =>
         /\ \A j \in RequestsFor(http[k].row, http[k].col) : j < k => ~http[j].ok
         /\ TilePath(http[k].row, http[k].col) \in DOMAIN dir
         /\ dir[TilePath(http[k].row, http[k].col)].kind = "png"
         /\ dir[TilePath(http[k].row, http[k].col)].url = http[k].url
  /\ Stitched =>
       \A p \in DOMAIN big_img.px :
         /\ \/ big_img.px[p] = Black
            \/ \E k \in 1..Len(http) : http[k].ok /\ http[k].url = big_img.px[p][1]
         /\ \A k \in 1..Len(http) : ~http[k].ok => http[k].url # big_img.px[p][1]

\* A stitched grid with a cell whose first mirror answered 2xx with a body
\* that was written and did not decode, and whose second mirror succeeded.
C8_Witness ==
  /\ Stitched
  /\ \E k \in 2..Len(http) :
       /\ http[k].ok
       /\ ~http[k - 1].ok /\ http[k - 1].written
       /\ http[k - 1].row = http[k].row /\ http[k - 1].col = http[k].col

(***************************************************************************)
(* Properties of the retention and of the run as a whole.                  *)
(***************************************************************************)
IsDigits(s) == \A i \in 1..Len(s) : s[i] \in Range(DigitChars)

\* The name has the shape {nd}d_{tile}_{YYYY}__{MM}__{DD}__{HHMMSS}.png.
IsArtifactName(name) ==
  LET parts == Split(Stem(name), "_")
  IN  /\ EndsWith(name, Png)
      /\ Len(parts) = 9
      /\ parts[4] = <<>> /\ parts[6] = <<>> /\ parts[8] = <<>>
      /\ EndsWith(parts[1], <<"d">>) /\ IsDigits(parts[2])
      /\ Len(parts[3]) = 4 /\ Len(parts[5]) = 2 /\ Len(parts[7]) = 2
      /\ Len(parts[9]) = 6
      /\ IsDigits(parts[3] \o parts[5] \o parts[7] \o parts[9])

\* The full timestamp embedded in an artifact name, YYYYMMDDHHMMSS: its
\* order as a string is the order in time.
FullStamp(name) ==
  LET parts == Split(Stem(name), "_")
  IN  parts[3] \o parts[5] \o parts[7] \o parts[9]

PrunedNames == {p[1] : p \in pruned}

\* The directory as the run found it, while nothing but prune has acted.
BeforePrune == DOMAIN dir \cup PrunedNames

PruneDone == steps = <<"prune">>

\* C3: prune with maxCount = K on K+M artifacts with distinct timestamps
\* leaves exactly the K artifacts with the largest full timestamps.
C3_PruneKeepsNewest ==
  ( /\ PruneDone
    /\ \A f \in BeforePrune : IsArtifactName(f)
    /\ Cardinality(BeforePrune) > cfg.max_pic_count )
  => /\ Cardinality(DOMAIN dir) = cfg.max_pic_count
     /\ \A kept \in DOMAIN dir : \A gone \in PrunedNames :
          StrLess(FullStamp(gone), FullStamp(kept))

StepsOfMain == <<"prune", "align", "fetch", "stitch", "compose", "save", "apply">>

SinkOfRun(r) == {i \in 1..Len(sink) : sink[i].run = r}

\* C4: the steps of a run are a prefix of prune, align, assemble (fetch and
\* stitch), compose, save, apply; the sink is invoked at most once per run,
\* after save, with the path save returned, which names the canvas this
\* run wrote; a failed run never invokes it; and no file that prune
\* unlinked is back (a file of the same name written later in the run is
\* another file).
C4_OrderAndSink ==
  /\ Len(steps) <= Len(StepsOfMain)
  /\ \A i \in 1..Len(steps) : steps[i] = StepsOfMain[i]
  /\ \A r \in 1..runs : Cardinality(SinkOfRun(r)) <= 1
  /\ \A i \in SinkOfRun(runs) :
       /\ Len(steps) >= 6 /\ steps[6] = "save"
       /\ sink[i].path = out_path
       /\ out_path \in DOMAIN dir
       /\ dir[out_path].kind = "canvas" /\ dir[out_path].gen = runs
       /\ dir[out_path].img = final_img
  /\ pc = "failed" => SinkOfRun(runs) = {}
  /\ \A p \in pruned : ~(p[1] \in DOMAIN dir /\ dir[p[1]].gen = p[2])

\* The second run has set the wallpaper after its prune unlinked files.
C4_Witness ==
  /\ runs = 2
  /\ pc = "done"
  /\ pruned # {}
  /\ SinkOfRun(1) # {} /\ SinkOfRun(2) # {}

\* A run that failed in save after its prune unlinked a tile file that the
\* download then wrote again.
C4_WitnessFailure ==
  /\ pc = "failed"
  /\ Len(steps) = 5
  /\ \E p \in pruned : p[1] \in DOMAIN dir

\* The .png files that were there before this run and are still there.
Retained == {f \in list_png(dir) : dir[f].gen < runs}

FailedBeforeSave ==
  /\ pc = "failed"
  /\ Len(steps) >= 1 /\ Len(steps) < 5

\* C9: when a run fails after prune and before save, the directory holds
\* at most maxCount artifacts, and at most maxCount of the .png files the
\* run found; only the tile files the run itself wrote come on top.
C9_FailedRunWithinCap ==
  FailedBeforeSave =>
    /\ Cardinality({f \in DOMAIN dir : IsArtifactName(f)}) <= cfg.max_pic_count
    /\ Cardinality(Retained) <= cfg.max_pic_count

\* A failed run whose prune had to unlink files.
C9_Witness ==
  /\ FailedBeforeSave
  /\ pruned # {}
  /\ Cardinality({f \in DOMAIN dir : IsArtifactName(f)}) = cfg.max_pic_count

\* C10: the artifact of a successful run is named after the snapshot time
\* that the run computed once and built its tile urls from.
C10_NameIsSnapshotTime ==
  pc \in {"apply", "done"} => out_path = ArtifactName(cfg, aligned_time)

(***************************************************************************)
(* SpecAlign: get_aligned_time on clocks around the turn of an hour, a     *)
(* day, a month and a year, for the lags 0..MaxLag and the granularities   *)
(* 1..MaxGran.                                                             *)
(***************************************************************************)
AlignCfg(lag, g) ==
  [RunCfg EXCEPT !.delay_minutes = lag, !.update_interval_minutes = g]

AlignClocks ==
  {DateTime(2024, mo, 1, h, m, s, us) :
     mo \in {1, 3}, h \in {0}, m \in {0, 2, 59}, s \in {0, 59}, us \in {0, 999999}}

InitAlign ==
  InitWith({AlignCfg(lag, g) : lag \in 0..MaxLag, g \in 1..MaxGran}, Servers,
           AlignClocks, {<<>>}, "align")

NextAlign == Align

SpecAlign == InitAlign /\ [][NextAlign]_vars

Aligned == steps = <<"align">>

\* The minutes from the aligned time to now - lag, seconds not counted.
MinutesBelowTarget ==
  ToMinutes(now) - cfg.delay_minutes - ToMinutes(aligned_time)

\* C6: the aligned time has minute % g = 0, second = microsecond = 0, is
\* not later than now - lag and less than g minutes earlier.
C6_Aligned ==
  Aligned =>
    /\ aligned_time.minute % cfg.update_interval_minutes = 0
    /\ aligned_time.minute \in 0..59
    /\ aligned_time.second = 0
    /\ aligned_time.microsecond = 0
    /\ MinutesBelowTarget >= 0
    /\ MinutesBelowTarget < cfg.update_interval_minutes

\* A clock with seconds, a lag that goes back over the turn of the year and
\* a granularity that does not divide 60.
C6_Witness ==
  /\ Aligned
  /\ now.second > 0 /\ now.microsecond > 0
  /\ aligned_time.year < now.year
  /\ cfg.update_interval_minutes = 7
  /\ MinutesBelowTarget > 0

(***************************************************************************)
(* SpecCompose: resize_and_center for the canvases of edges 1..MaxEdge and *)
(* 1920 x 1080, and the cover ratios 1/8 .. 8/8 and 9/10.                  *)
(***************************************************************************)
CoverRatios == {<<m, 8>> : m \in 1..8} \cup {<<9, 10>>}

Canvases == ((1..MaxEdge) \X (1..MaxEdge)) \cup {<<1920, 1080>>}

InitCompose ==
  /\ cfg \in {Config(1, cv, r, 1) : cv \in Canvases, r \in CoverRatios}
  /\ srv \in Servers
  /\ now = DateTime(2024, 3, 5, 12, 39, 50, 0)
  /\ dir = <<>>
  /\ ticks = 0
  /\ runs = 1
  /\ pc = "compose"
  /\ sink = <<>>
  /\ pruned = {}
  /\ aligned_time = NoTime
  /\ time_str = <<>>
  /\ row = 0
  /\ col = 0
  /\ mi = 1
  /\ row_tiles = <<>>
  /\ tiles = <<>>
  /\ http = <<>>
  /\ big_img = NewImage(2, 2)
  /\ final_img = NoCanvas
  /\ out_path = <<>>
  /\ steps = <<>>

NextCompose == Compose \/ ComposeFails

SpecCompose == InitCompose /\ [][NextCompose]_vars

\* floor(min(W, H) * r)
FloorTarget ==
  (Min(cfg.pic_size[1], cfg.pic_size[2]) * cfg.cover_ratio[1])
    \div cfg.cover_ratio[2]

\* The canvas has the size (W, H) and the composite, resized to a square of
\* floor(min(W, H) * r), pasted at the floor-divided centre offset, inside
\* the canvas; 1920 x 1080 with 0.9 gives 972 at (474, 54).
Composed ==
  /\ final_img.size = cfg.pic_size
  /\ final_img.resized = <<FloorTarget, FloorTarget>>
  /\ final_img.offset = <<(cfg.pic_size[1] - FloorTarget) \div 2,
                          (cfg.pic_size[2] - FloorTarget) \div 2>>
  /\ final_img.of = big_img
  /\ final_img.offset[1] >= 0 /\ final_img.offset[2] >= 0
  /\ final_img.offset[1] + FloorTarget <= cfg.pic_size[1]
  /\ final_img.offset[2] + FloorTarget <= cfg.pic_size[2]
  /\ (cfg.pic_size = <<1920, 1080>> /\ cfg.cover_ratio = <<9, 10>>)
       => final_img.resized = <<972, 972>> /\ final_img.offset = <<474, 54>>

\* C7 as stated: for every canvas and every cover ratio in (0, 1], compose
\* gives that canvas.
C7_ComposesEveryCanvas == pc # "compose" => Composed

\* C7 as amended: it does whenever floor(min(W, H) * r) >= 1.
C7_ComposesWhenTargetPositive ==
  (pc # "compose" /\ FloorTarget >= 1) => Composed

\* The canvas 1920 x 1080 composed with the cover ratio 0.9.
C7_Witness ==
  /\ pc = "save"
  /\ cfg.pic_size = <<1920, 1080>>
  /\ cfg.cover_ratio = <<9, 10>>
  /\ final_img.resized = <<972, 972>>

(***************************************************************************)
(* SpecPrune: clean_old_images on the directories of at most MaxFiles      *)
(* files (artifacts, tile files, a file of another program) with the       *)
(* retention caps 1..MaxKeep.                                              *)
(***************************************************************************)
MaxKeep == 2      \* max_pic_count 1..MaxKeep in SpecPrune

PruneCfg(k) == Config(1, <<1920, 1080>>, <<9, 10>>, k)

\* The tile files an earlier run left: tile_0_0.png of a grid of any
\* density, tile_0_3.png of a grid of density 4 or more.
TileNames == {TilePath(0, 0), TilePath(0, 3)}

InitPrune ==
  InitWith({PruneCfg(k) : k \in 1..MaxKeep}, Servers,
           {DateTime(2024, 1, 1, 0, 29, 50, 0)},
           Directories(ArtifactNames(RunCfg) \cup TileNames \cup {OtherName},
                       MaxFiles),
           "prune")

NextPrune == Prune \/ PruneUnlinkFails

SpecPrune == InitPrune /\ [][NextPrune]_vars

\* The name has the shape tile_{row}_{col}.png.
IsTileName(name) ==
  LET parts == Split(Stem(name), "_")
  IN  /\ EndsWith(name, Png)
      /\ Len(parts) = 3
      /\ parts[1] = <<"t", "i", "l", "e">>
      /\ parts[2] # <<>> /\ parts[3] # <<>>
      /\ IsDigits(parts[2]) /\ IsDigits(parts[3])

ArtifactsIn(names) == {f \in names : IsArtifactName(f)}

\* C11: prune unlinks no tile file, and unlinks no artifact while the
\* artifacts it found are at most maxCount, whatever tile files lie in the
\* directory.
C11_PruneSparesTiles ==
  PruneDone =>
    /\ \A f \in PrunedNames : ~IsTileName(f)
    /\ Cardinality(ArtifactsIn(BeforePrune)) <= cfg.max_pic_count
         => ArtifactsIn(PrunedNames) = {}

\* C12: the sort key is the fallback "0" for a name of fewer than three
\* fields, the key of every file whose name is no artifact name is below
\* the key of every artifact, and prune unlinks no artifact while it keeps
\* such a file.
C12_MalformedSortOldest ==
  PruneDone =>
    /\ \A f \in BeforePrune :
         Len(Split(Stem(f), "_")) < 3 => get_timestamp(f) = <<"0">>
    /\ \A f \in BeforePrune \ ArtifactsIn(BeforePrune) :
         \A g \in ArtifactsIn(BeforePrune) :
           StrLess(get_timestamp(f), get_timestamp(g))
    /\ \A kept \in list_png(dir) \ ArtifactsIn(DOMAIN dir) :
         ArtifactsIn(PrunedNames) = {}

(***************************************************************************)
(* Properties of a grid of tiles of different sizes.                       *)
(***************************************************************************)
\* download_tiles has returned a grid in which some tile has another size
\* than the first one.
SizeMismatch ==
  /\ Len(tiles) = cfg.nd
  /\ \E rc \in Cells : tiles[rc[1] + 1][rc[2] + 1].size # tiles[1][1].size

\* C13: a grid with a tile of another size than the first tile is rejected
\* at stitch time: no composite is produced, nothing is composed or saved
\* and the wallpaper is not set.
C13_MismatchRejected ==
  SizeMismatch =>
    /\ ~Stitched
    /\ big_img = NoImage
    /\ final_img = NoCanvas
    /\ ArtifactsOfRun = {}
    /\ SinkOfRun(runs) = {}

(***************************************************************************)
(* Properties of a prune in which an unlink fails.                         *)
(***************************************************************************)
\* The run has ended before its first step, prune, completed.
PruneAborted == pc = "failed" /\ steps = <<>>

\* C14: a failure to unlink a file does not end the run: no run ends in
\* prune, with the later files not unlinked and nothing aligned, fetched,
\* composed, saved or applied.
C14_UnlinkFailureSkipped == ~PruneAborted

(***************************************************************************)
(* Properties of resize_and_center on square canvases.                     *)
(***************************************************************************)
SquareCanvas == cfg.pic_size[1] = cfg.pic_size[2]

FullCover == cfg.cover_ratio[1] = cfg.cover_ratio[2]

HalfCover == 2 * cfg.cover_ratio[1] = cfg.cover_ratio[2]

\* The widths of the border left, right, above and below the composite.
Borders ==
  {final_img.offset[1],
   final_img.size[1] - final_img.offset[1] - final_img.resized[1],
   final_img.offset[2],
   final_img.size[2] - final_img.offset[2] - final_img.resized[2]}

\* b is within one pixel of e / 4.
NearQuarter(b, e) == 4 * b - e <= 4 /\ e - 4 * b <= 4

\* On a square canvas of edge E: with the cover ratio 1 the composite has
\* the size E at (0, 0) and no border; with the cover ratio 1/2 each of the
\* four borders is within one pixel of E / 4.
SquareComposed ==
  /\ pc = "save"
  /\ final_img.size = cfg.pic_size
  /\ FullCover =>
       /\ final_img.resized = cfg.pic_size
       /\ final_img.offset = <<0, 0>>
       /\ Borders = {0}
  /\ HalfCover => \A b \in Borders : NearQuarter(b, cfg.pic_size[1])

\* C15 as stated: for every square canvas, with the cover ratios 1 and 1/2.
C15_SquareBorders ==
  (pc # "compose" /\ SquareCanvas /\ (FullCover \/ HalfCover))
    => SquareComposed

\* C15 as amended: for every square canvas with the cover ratio 1, and for
\* every square canvas of edge 2 or more with the cover ratio 1/2.
C15_SquareBordersFromEdgeTwo ==
  ( /\ pc # "compose"
    /\ SquareCanvas
    /\ FullCover \/ (HalfCover /\ cfg.pic_size[1] >= 2) )
    => SquareComposed

\* A square canvas of odd edge composed with the cover ratio 1/2: the
\* borders of one axis differ by a pixel.
C15_Witness ==
  /\ pc = "save"
  /\ SquareCanvas
  /\ HalfCover
  /\ cfg.pic_size[1] % 2 = 1
  /\ Cardinality(Borders) = 2

(***************************************************************************)
(* SpecRatio: one run on a grid of one tile with a cover ratio outside     *)
(* (0, 1]: 3/2, 2, 0 and -1/2, for the canvases of SpecCompose.            *)
(***************************************************************************)
OutsideRatios == {<<3, 2>>, <<2, 1>>, <<0, 1>>, <<-1, 2>>}

InitRatio ==
  InitWith({Config(1, cv, r, 1) : cv \in Canvases, r \in OutsideRatios},
           Servers, {DateTime(2024, 3, 5, 12, 39, 50, 0)}, {<<>>}, "prune")

NextRatio ==
  \/ Prune
  \/ Align
  \/ FetchOk
  \/ Stitch
  \/ Compose
  \/ ComposeFails
  \/ Save
  \/ Apply

SpecRatio == InitRatio /\ [][NextRatio]_vars

\* The cover ratio lies in (0, 1].
InRange(r) == r[1] > 0 /\ r[1] <= r[2]

\* C16: with a cover ratio outside (0, 1] no canvas is produced, nothing is
\* saved and the wallpaper is not set.
C16_OutOfRangeRejected ==
  ~InRange(cfg.cover_ratio) =>
    /\ final_img = NoCanvas
    /\ ArtifactsOfRun = {}
    /\ sink = <<>>

(***************************************************************************)
(* SpecGridLive: one run on an empty directory in which the process goes   *)
(* on as long as it has a step to take; a request succeeds, or fails by an *)
(* error or by the timeout of 10 seconds (line 101), so no step blocks.    *)
(***************************************************************************)
NextGridLive ==
  \/ Prune
  \/ Align
  \/ FetchOk
  \/ FetchHttpFails
  \/ Stitch
  \/ Compose
  \/ Save
  \/ Apply

SpecGridLive == InitGrid /\ [][NextGridLive]_vars /\ WF_vars(NextGridLive)

RunEnded == pc \in {"done", "failed"}

\* The position of the last request for the cell (r, c).
LastRequestFor(r, c) ==
  CHOOSE k \in RequestsFor(r, c) : \A j \in RequestsFor(r, c) : j <= k

\* At most one request per cell and mirror, so at most N * N * |mirrors|
\* requests in a run, and no request after the last one of a cell for which
\* every mirror failed.
AttemptsBounded ==
  /\ Len(http) <= cfg.nd * cfg.nd * Len(cfg.base_url)
  /\ \A j, k \in 1..Len(http) :
       (/\ http[j].row = http[k].row /\ http[j].col = http[k].col
        /\ http[j].mirror = http[k].mirror) => j = k
  /\ \A rc \in Cells :
       Exhausted(rc[1], rc[2]) => LastRequestFor(rc[1], rc[2]) = Len(http)

\* C17: the requests of a run are bounded as above at every moment, and
\* every run ends, done or failed.
C17_TerminatesWithinBound == []AttemptsBounded /\ <>RunEnded

\* A run that ended well with the greatest number of requests: every cell
\* of a grid of more than one tile took both mirrors.
C17_Witness ==
  /\ pc = "done"
  /\ cfg.nd >= 2
  /\ Len(http) = cfg.nd * cfg.nd * Len(cfg.base_url)

(***************************************************************************)
(* Properties of the retention over several runs.                          *)
(***************************************************************************)
\* The last call of set_wallpaper: the run that made it and the path it set.
LastSink == sink[Len(sink)]

\* C18: with maxCount >= 1, prune does not unlink the artifact that the
\* most recent successful run saved and set as wallpaper, and when a later
\* run has failed that file is still in the directory.
C18_PruneKeepsWallpaper ==
  (sink # <<>> /\ cfg.max_pic_count >= 1) =>
    /\ <<LastSink.path, LastSink.run>> \notin pruned
    /\ pc = "failed" => LastSink.path \in DOMAIN dir

\* The artifact that bears the aligned time of this run was in the
\* directory before this run and is still the file of that earlier run.
StaleTwin ==
  /\ ArtifactName(cfg, aligned_time) \in DOMAIN dir
  /\ dir[ArtifactName(cfg, aligned_time)].gen < runs

\* C19: when a run has ended, done or failed, the directory holds at most
\* maxCount + 1 artifacts; and a run that has saved has written the file
\* that bears its aligned time, over the artifact of that time if there was
\* one, and not another file next to it.
C19_AtMostOneOverCap ==
  /\ RunEnded =>
       Cardinality(ArtifactsIn(DOMAIN dir)) <= cfg.max_pic_count + 1
  /\ pc \in {"apply", "done"} => ~StaleTwin

====
